---- MODULE Spec2Model ----
(***************************************************************************)
(* Model of the list-lines view plugin (src/src/features/LinesFeature.ts): *)
(* the deferred recomputation of connector descriptors, its geometry, the  *)
(* positional reconciliation of the line elements and the click handler.   *)
(*                                                                         *)
(* Conventions.  Document lines are numbered from 1 (the code numbers them *)
(* from 0); offsets start at 0 as in the code.  A List object is an        *)
(* integer: i > 0 is the item whose first line is line i, -s is the root   *)
(* list of the block of list lines that starts at line s, 0 is null.       *)
(* Pixel abscissas are counted in half pixels, so that 4.5 px is 9.        *)
(***************************************************************************)
EXTENDS Integers, Sequences, FiniteSets, TLC

\* ------------------------------------------------------------ bounds
MaxLines == 3
LineHeight == 24
MaxHandles == 3
MaxTriggers == 3

\* ------------------------------------------------- program constants
Overscan == 20
TabSize == 4
SpaceSize2 == 9

NoList == 0
NoZoom == [from |-> [line |-> 0, ch |-> 0], to |-> [line |-> 0, ch |-> 0]]
Min(a, b) == IF a < b THEN a ELSE b
Max(a, b) == IF a > b THEN a ELSE b

\* ------------------------------------------------------- documents
\* A line is a list line (indent >= 0: that many indent units, a bullet,
\* a space and its text) or a blank line (indent = -1).
Line(n, e) == [indent |-> n, empty |-> e]
IsListLine(d, i) == d[i].indent >= 0

\* The leading whitespace of line i: two spaces for each indent level.
getFirstLineIndent(d, i) ==
    [k \in 1..(2 * d[i].indent) |-> " "]

LineLen(d, i) ==
    IF ~IsListLine(d, i) THEN 0
    ELSE Len(getFirstLineIndent(d, i)) + 2 + (IF d[i].empty THEN 0 ELSE 1)

RECURSIVE LineStart(_, _)
LineStart(d, i) ==
    IF i = 1 THEN 0 ELSE LineStart(d, i - 1) + LineLen(d, i - 1) + 1

LineEnd(d, i) == LineStart(d, i) + LineLen(d, i)

\* MyEditor.posToOffset and MyEditor.offsetToPos(...).line
posToOffset(d, line, ch) == LineStart(d, line) + ch
offsetToLine(d, off) ==
    CHOOSE i \in 1..Len(d) :
        /\ LineStart(d, i) <= off
        /\ \A j \in 1..Len(d) : LineStart(d, j) <= off => j <= i

\* ------------------------------------------------------ outline tree
BlockStart(d, i) ==
    CHOOSE s \in 1..i :
        /\ \A k \in s..i : IsListLine(d, k)
        /\ (s = 1 \/ ~IsListLine(d, s - 1))
BlockEnd(d, s) ==
    CHOOSE e \in s..Len(d) :
        /\ \A k \in s..e : IsListLine(d, k)
        /\ (e = Len(d) \/ ~IsListLine(d, e + 1))

\* List.getParent: the nearest list line above with a smaller indent, the
\* root list of the block when there is none, null for a root list.
getParent(d, l) ==
    IF l <= 0 THEN NoList
    ELSE LET s == BlockStart(d, l)
             above == {j \in s..(l - 1) : d[j].indent < d[l].indent}
         IN IF above = {} THEN -s
            ELSE CHOOSE j \in above : \A k \in above : k <= j

ChildSet(d, l) ==
    IF l = NoList THEN {}
    ELSE IF l < 0
         THEN {i \in (-l)..BlockEnd(d, -l) : getParent(d, i) = l}
         ELSE {i \in (l + 1)..Len(d) : IsListLine(d, i) /\ getParent(d, i) = l}

RECURSIVE SetToSeq(_)
SetToSeq(S) ==
    IF S = {} THEN <<>>
    ELSE LET m == CHOOSE x \in S : \A y \in S : x <= y
         IN <<m>> \o SetToSeq(S \ {m})

\* List.getChildren, in document order
getChildren(d, l) == SetToSeq(ChildSet(d, l))

\* List.getNextSiblingOf
getNextSiblingOf(d, p, c) ==
    LET later == {i \in ChildSet(d, p) : i > c}
    IN IF later = {} THEN NoList
       ELSE CHOOSE i \in later : \A k \in later : i <= k

\* The last line of the lines an item owns (its own line and descendants).
SubtreeEnd(d, i) ==
    CHOOSE e \in i..Len(d) :
        /\ \A k \in (i + 1)..e : IsListLine(d, k) /\ d[k].indent > d[i].indent
        /\ (e = Len(d) \/ ~IsListLine(d, e + 1) \/ d[e + 1].indent <= d[i].indent)

\* List.getRange()[1].line of a root list
RootLastLine(d, r) == BlockEnd(d, -r)

isEmpty(d, l) == l > 0 /\ d[l].empty

\* List.isFolded: the host hides the item's descendants, that is the item
\* or one of its ancestors is the head of a fold.
RECURSIVE isFolded(_, _, _)
isFolded(d, F, l) ==
    IF l <= 0 THEN FALSE
    ELSE l \in F \/ isFolded(d, F, getParent(d, l))

\* ParserService.parseRange: the root lists of the blocks of list lines
\* that meet the lines fromLine..toLine, whole, in document order.
parseRange(d, fromLine, toLine) ==
    LET starts == SetToSeq({s \in 1..Len(d) :
                              /\ IsListLine(d, s)
                              /\ BlockStart(d, s) = s
                              /\ s <= toLine
                              /\ BlockEnd(d, s) >= fromLine})
    IN [k \in 1..Len(starts) |-> -starts[k]]

\* ----------------------------------------------------- host geometry
\* A line is hidden when it is a proper descendant of the head of a fold.
Hidden(d, F, i) ==
    \E j \in F : j < i /\ j <= Len(d) /\ IsListLine(d, j) /\ i <= SubtreeEnd(d, j)

\* The line block around a line: hidden lines belong to the block of the
\* outermost fold head hiding them (a line block is delimited by non-hidden
\* line breaks).
BlockLine(d, F, i) ==
    IF Hidden(d, F, i)
    THEN CHOOSE j \in 1..i : /\ ~Hidden(d, F, j)
                            /\ \A k \in (j + 1)..i : Hidden(d, F, k)
    ELSE i

\* EditorView.lineBlockAt(off).top and .bottom, relative to the document top
lineBlockTop(d, F, off) ==
    LET b == BlockLine(d, F, offsetToLine(d, off))
    IN LineHeight * Cardinality({k \in 1..(b - 1) : ~Hidden(d, F, k)})
lineBlockBottom(d, F, off) == lineBlockTop(d, F, off) + LineHeight

\* ------------------------------------------------------ geometry engine
\* getIndentSize, in half pixels: a tab counts tabSize, any other
\* character 1, times spaceSize (4.5 px).
RECURSIVE CountSpaces(_)
CountSpaces(indent) ==
    IF indent = <<>> THEN 0
    ELSE (IF Head(indent) = "\t" THEN TabSize ELSE 1) + CountSpaces(Tail(indent))
getIndentSize(d, l) == CountSpaces(getFirstLineIndent(d, l)) * SpaceSize2

\* A getNextSibling that does not climb to the ancestors
getNextSiblingOwn(d, l) == getNextSiblingOf(d, getParent(d, l), l)

\* getNextSibling: the next sibling of the item or of its nearest ancestor
\* that has one.
RECURSIVE getNextSibling(_, _)
getNextSibling(d, l) ==
    LET p == getParent(d, l)
    IN IF p = NoList THEN NoList
       ELSE LET n == getNextSiblingOf(d, p, l)
            IN IF n # NoList THEN n ELSE getNextSibling(d, p)

fromOffsetOf(d, l) == posToOffset(d, l, Len(getFirstLineIndent(d, l)))
\* A tillOffset that always takes the last line of the list
TillLineLast(d, lastLine, l) == lastLine

TillLine(d, lastLine, l) ==
    LET n == getNextSibling(d, l)
    IN IF n # NoList THEN n - 1 ELSE lastLine
tillOffsetOf(d, lastLine, l) == posToOffset(d, TillLine(d, lastLine, l), 0)

\* visibleFrom and visibleTo after the clip against the zoom range
FirstVisible(vr) == vr[1].from
LastVisible(vr) == vr[Len(vr)].to
visibleFromOf(d, z, vr) ==
    IF z # NoZoom THEN Max(FirstVisible(vr), posToOffset(d, z.from.line, z.from.ch))
    ELSE FirstVisible(vr)
\* A clip that forgets the end of the zoom range
visibleToUnzoomed(d, z, vr) == LastVisible(vr)

visibleToOf(d, z, vr) ==
    IF z # NoZoom THEN Min(LastVisible(vr), posToOffset(d, z.to.line, z.to.ch))
    ELSE LastVisible(vr)

OutOfSight(d, z, vr, lastLine, l) ==
    \/ fromOffsetOf(d, l) > visibleToOf(d, z, vr)
    \/ tillOffsetOf(d, lastLine, l) < visibleFromOf(d, z, vr)

topOf(d, F, z, vr, l) ==
    IF visibleFromOf(d, z, vr) > 0 /\ fromOffsetOf(d, l) <= visibleFromOf(d, z, vr)
    THEN -Overscan
    ELSE lineBlockTop(d, F, fromOffsetOf(d, l))
\* A bottom that is not clamped to the visible range
bottomUnclamped(d, F, z, vr, lastLine, l) ==
    lineBlockBottom(d, F, tillOffsetOf(d, lastLine, l))

bottomOf(d, F, z, vr, lastLine, l) ==
    IF tillOffsetOf(d, lastLine, l) > visibleToOf(d, z, vr)
    THEN lineBlockBottom(d, F, visibleToOf(d, z, vr) - 1)
    ELSE lineBlockBottom(d, F, tillOffsetOf(d, lastLine, l))

hasNextSiblingOf(d, z, vr, l) ==
    LET n == getNextSiblingOf(d, getParent(d, l), l)
    IN /\ n # NoList
       /\ posToOffset(d, n, Len(getFirstLineIndent(d, n)) + 2) <= visibleToOf(d, z, vr)

\* A push that forgets the fold test
EmitsFolded(d, F, height, l) == height > 0

\* The test that guards the push of a descriptor
Emits(d, F, height, l) == height > 0 /\ ~isFolded(d, F, l)

LineDataOf(d, F, z, vr, lastLine, l) ==
    LET top == topOf(d, F, z, vr, l)
        height == bottomOf(d, F, z, vr, lastLine, l) - top
    IN IF OutOfSight(d, z, vr, lastLine, l) \/ ~Emits(d, F, height, l)
       THEN <<>>
       ELSE << [top |-> top,
                left |-> getIndentSize(d, l),
                height |-> [px |-> height,
                            minus |-> IF hasNextSiblingOf(d, z, vr, l)
                                      THEN "1em" ELSE "1.8em"],
                list |-> l] >>

\* A walk that forgets the early return on a childless item
IsLeafNever(d, l) == FALSE

\* The early return of recursive: the item has no children
IsLeaf(d, l) == Len(getChildren(d, l)) = 0

\* Whether recursive descends into a child
Descends(d, c) == ~isEmpty(d, c)

\* recursive: the descriptors pushed for an item, those of its non-empty
\* children first.
RECURSIVE recursive(_, _, _, _, _, _)
RECURSIVE recursiveAll(_, _, _, _, _, _)
recursive(d, F, z, vr, lastLine, l) ==
    LET children == getChildren(d, l)
    IN IF IsLeaf(d, l) THEN <<>>
       ELSE recursiveAll(d, F, z, vr, lastLine,
                         SelectSeq(children, LAMBDA c : Descends(d, c)))
            \o LineDataOf(d, F, z, vr, lastLine, l)
recursiveAll(d, F, z, vr, lastLine, items) ==
    IF items = <<>> THEN <<>>
    ELSE recursive(d, F, z, vr, lastLine, Head(items))
         \o recursiveAll(d, F, z, vr, lastLine, Tail(items))

\* lines.sort: by top, then by left; equal keys keep their order.
Before(a, b) == IF a.top = b.top THEN a.left < b.left ELSE a.top < b.top
RECURSIVE InsertSorted(_, _)
InsertSorted(sorted, x) ==
    IF sorted = <<>> THEN <<x>>
    ELSE IF Before(x, Head(sorted)) THEN <<x>> \o sorted
         ELSE <<Head(sorted)>> \o InsertSorted(Tail(sorted), x)
RECURSIVE SortLines(_)
SortLines(ls) ==
    IF ls = <<>> THEN <<>>
    ELSE InsertSorted(SortLines(SubSeq(ls, 1, Len(ls) - 1)), ls[Len(ls)])

\* A walk that takes the last line of the document for every list
RECURSIVE WalkListsDocEnd(_, _, _, _, _)
WalkListsDocEnd(d, F, z, vr, lists) ==
    IF lists = <<>> THEN <<>>
    ELSE recursiveAll(d, F, z, vr, Len(d), getChildren(d, Head(lists)))
         \o WalkListsDocEnd(d, F, z, vr, Tail(lists))

\* The loops of calculate over the parsed lists and their children: each
\* list sets lastLine, then its children are walked.
RECURSIVE WalkLists(_, _, _, _, _)
WalkLists(d, F, z, vr, lists) ==
    IF lists = <<>> THEN <<>>
    ELSE recursiveAll(d, F, z, vr, RootLastLine(d, Head(lists)),
                      getChildren(d, Head(lists)))
         \o WalkLists(d, F, z, vr, Tail(lists))

\* ---------------------------------------------------------------- state
VARIABLES
    \* the host: document, folded lines, zoom range, view geometry, settings
    doc, folds, zoom, visibleRanges, hasLineBlocks,
    listLines, defaultTheme, listLineAction, hostEditor, scrollPos,
    \* the fields of ListLinesViewPluginValue and its subscriptions
    editor, timer, immediates, scheduled, lastLine, lines, lineElements,
    parsed, scroller, settingsCb, scrollCb, destroyed,
    \* history: the last step, its outcome, requests not yet served, the
    \* toggle-folding clicks made on one item since the last host change,
    \* the largest number of descriptors a recomputation has produced
    last, outcome, trig, served, cmds, clicked, toggles, seen

hostVars == <<doc, folds, zoom, visibleRanges, hasLineBlocks,
              listLines, defaultTheme, listLineAction, hostEditor, scrollPos>>
domVars == <<lastLine, lines, lineElements, parsed>>
taskVars == <<immediates, scheduled, trig>>
subsVars == <<settingsCb, scrollCb, destroyed>>
histVars == <<last, outcome, served, cmds, clicked, toggles, seen>>
vars == <<hostVars, editor, timer, taskVars, domVars, scroller, subsVars, histVars>>

\* The toggle-folding clicks on one item: the item, how many (1 or 2), the
\* host's folds before the first and before the latest, whether every click
\* found the parse of the descriptors current, whether calculate ran after
\* the first.
NoToggles ==
    [item |-> 0, n |-> 0, folds0 |-> {}, mid |-> {}, fresh |-> FALSE, rerun |-> FALSE]
Fresh == parsed.doc = doc /\ parsed.folds = folds
ToggledOn(k) ==
    LET l == lines[lineElements[k].index].list
    IN IF toggles.n = 1 /\ toggles.item = l
       THEN [toggles EXCEPT !.n = 2, !.mid = folds, !.fresh = toggles.fresh /\ Fresh]
       ELSE [item |-> l, n |-> 1, folds0 |-> folds, mid |-> folds,
             fresh |-> Fresh, rerun |-> FALSE]

Note(name, out, n, c, k) ==
    /\ last' = name
    /\ outcome' = out
    /\ served' = n
    /\ cmds' = c
    /\ clicked' = k
    /\ toggles' = IF name = "click" /\ out = "toggled" THEN ToggledOn(k)
                  ELSE IF name = "calculate"
                  THEN (IF toggles.n = 1 THEN [toggles EXCEPT !.rerun = TRUE]
                        ELSE toggles)
                  ELSE NoToggles
    /\ seen' = IF name = "calculate" THEN Max(seen, Len(lines')) ELSE seen

\* ------------------------------------------------------ the scheduler
FreeHandles(pending) == (1..MaxHandles) \ pending
NewHandle(pending) == CHOOSE h \in FreeHandles(pending) : \A k \in FreeHandles(pending) : h <= k

\* A scheduleRecalculate and destroy that forget to cancel
clearImmediateForgotten(pending, handle) == pending

\* clearImmediate(this.scheduled): what stays pending
clearImmediate(pending, handle) == pending \ {handle}

\* A scheduleRecalculate that cancels and forgets to defer calculate
scheduleRecalculateDropped ==
    /\ immediates' = clearImmediate(immediates, scheduled)
    /\ scheduled' = scheduled
    /\ trig' = Min(trig + 1, MaxTriggers)

\* scheduleRecalculate: cancel the pending task, then defer calculate.
CanSchedule == FreeHandles(clearImmediate(immediates, scheduled)) # {}
scheduleRecalculate ==
    LET kept == clearImmediate(immediates, scheduled)
        h == NewHandle(kept)
    IN /\ immediates' = kept \cup {h}
       /\ scheduled' = h
       /\ trig' = Min(trig + 1, MaxTriggers)
NoSchedule == UNCHANGED taskVars

\* A ViewUpdate: the four flags update reads
Flags(dc, vc, gc, rc) ==
    [docChanged |-> dc, viewportChanged |-> vc, geometryChanged |-> gc,
     reconfigured |-> rc]
Flagged(u) ==
    u.docChanged \/ u.viewportChanged \/ u.geometryChanged \/ u.reconfigured
DocChanged == Flags(TRUE, FALSE, FALSE, FALSE)
ViewportChanged == Flags(FALSE, TRUE, FALSE, FALSE)
GeometryChanged == Flags(FALSE, FALSE, TRUE, FALSE)
Reconfigured == Flags(FALSE, FALSE, FALSE, TRUE)
SelectionSet == Flags(FALSE, FALSE, FALSE, FALSE)

\* An update that forgets the reconfiguration
updateNoReconfigured(u) ==
    IF u.docChanged \/ u.viewportChanged \/ u.geometryChanged
    THEN scheduleRecalculate ELSE NoSchedule

\* update(update): schedules when one of docChanged, viewportChanged,
\* geometryChanged, reconfigured is set.
update(u) ==
    IF u.docChanged \/ u.viewportChanged \/ u.geometryChanged \/ u.reconfigured
    THEN scheduleRecalculate ELSE NoSchedule

\* The view calls update on its live plugin values only.
Dispatch(u) ==
    IF destroyed THEN NoSchedule ELSE update(u)

\* The view's viewport: here the hull of the visible ranges.
ViewportFrom == IF visibleRanges = <<>> THEN 0 ELSE FirstVisible(visibleRanges)
ViewportTo ==
    IF visibleRanges = <<>> THEN LineEnd(doc, Len(doc)) ELSE LastVisible(visibleRanges)

\* A guard that forgets the theme
ComputesAnyTheme ==
    /\ listLines
    /\ hasLineBlocks
    /\ Len(visibleRanges) > 0

\* The guard of calculate
Computes ==
    /\ listLines
    /\ defaultTheme
    /\ hasLineBlocks
    /\ Len(visibleRanges) > 0

HiddenStyle == [px |-> 0, minus |-> "0"]

\* An updateDom that removes the elements past the descriptors
updateDomRemoving(ls, els) ==
    [i \in 1..Len(ls) |->
        [index |-> IF i <= Len(els) THEN els[i].index ELSE i,
         top |-> ls[i].top, left |-> ls[i].left,
         height |-> ls[i].height, display |-> "block"]]

\* An updateDom that leaves the elements past the descriptors as they are
updateDomKeeping(ls, els) ==
    [i \in 1..Max(Len(ls), Len(els)) |->
        IF i <= Len(ls)
        THEN [index |-> IF i <= Len(els) THEN els[i].index ELSE i,
              top |-> ls[i].top, left |-> ls[i].left,
              height |-> ls[i].height, display |-> "block"]
        ELSE els[i]]

\* updateDom: element i shows descriptor i, a missing element is created
\* with data-index i, the elements past the descriptors are hidden.
updateDom(ls, els) ==
    [i \in 1..Max(Len(ls), Len(els)) |->
        IF i <= Len(ls)
        THEN [index |-> IF i <= Len(els) THEN els[i].index ELSE i,
              top |-> ls[i].top, left |-> ls[i].left,
              height |-> ls[i].height, display |-> "block"]
        ELSE [index |-> els[i].index, top |-> 0, left |-> 0,
              height |-> HiddenStyle, display |-> "none"]]

ParsedLists ==
    parseRange(doc, offsetToLine(doc, ViewportFrom), offsetToLine(doc, ViewportTo))

\* calculate, run by the deferred task h
calculate(h) ==
    /\ h \in immediates
    /\ immediates' = immediates \ {h}
    /\ trig' = 0
    /\ UNCHANGED <<scheduled, hostVars, editor, timer, scroller, subsVars>>
    /\ IF Computes /\ ~editor
       THEN \* this.editor is undefined: offsetToPos throws after lines = []
            /\ lines' = <<>>
            /\ UNCHANGED <<lastLine, lineElements, parsed>>
            /\ Note("calculate", "threw", trig, <<>>, 0)
       ELSE IF Computes
       THEN LET lists == ParsedLists
                ls == SortLines(WalkLists(doc, folds, zoom, visibleRanges, lists))
            IN /\ lines' = ls
               /\ lastLine' = IF lists = <<>> THEN lastLine
                               ELSE RootLastLine(doc, lists[Len(lists)])
               /\ parsed' = [doc |-> doc, folds |-> folds]
               /\ lineElements' = updateDom(ls, lineElements)
               /\ Note("calculate", "computed", trig, <<>>, 0)
       ELSE /\ lines' = <<>>
            /\ lineElements' = updateDom(<<>>, lineElements)
            /\ UNCHANGED <<lastLine, parsed>>
            /\ Note("calculate", "cleared", trig, <<>>, 0)

Calculate == \E h \in 1..MaxHandles : calculate(h)

\* waitForEditor, run by its timer: poll again, or attach and schedule.
WaitForEditor ==
    /\ timer
    /\ UNCHANGED <<hostVars, domVars, scroller, subsVars>>
    /\ Note("waitForEditor", "none", 0, <<>>, 0)
    /\ IF ~hostEditor
       THEN UNCHANGED <<timer, editor, taskVars>>
       ELSE /\ CanSchedule
            /\ editor' = TRUE
            /\ timer' = FALSE
            /\ scheduleRecalculate

\* destroy
Destroy ==
    /\ ~destroyed
    /\ settingsCb' = FALSE
    /\ scrollCb' = FALSE
    /\ destroyed' = TRUE
    /\ immediates' = clearImmediate(immediates, scheduled)
    /\ trig' = 0
    /\ UNCHANGED <<scheduled, hostVars, editor, timer, domVars, scroller>>
    /\ Note("destroy", "none", 0, <<>>, 0)

\* ------------------------------------------------------- interaction
\* The lines toggleFolding collects: the first lines of the non-empty
\* children of the item.
linesToToggle(d, l) ==
    SelectSeq(getChildren(d, l), LAMBDA c : ~isEmpty(d, c))
\* A decision that unfolds as soon as one child is folded
needToUnfoldAny(d, F, l) ==
    \E k \in 1..Len(linesToToggle(d, l)) : isFolded(d, F, linesToToggle(d, l)[k])

needToUnfold(d, F, l) ==
    \A k \in 1..Len(linesToToggle(d, l)) : isFolded(d, F, linesToToggle(d, l)[k])

\* toggleFolding: the fold or unfold commands sent to the editor, in order,
\* read from the List object the descriptor holds.
toggleFolding(d, F, l) ==
    IF isEmpty(d, l) THEN <<>>
    ELSE [k \in 1..Len(linesToToggle(d, l)) |->
            [op |-> IF needToUnfold(d, F, l) THEN "unfold" ELSE "fold",
             line |-> linesToToggle(d, l)[k]]]

\* MyEditor.fold and MyEditor.unfold on the host's current document
RECURSIVE ApplyFoldCmds(_, _, _)
ApplyFoldCmds(d, F, cs) ==
    IF cs = <<>> THEN F
    ELSE LET c == Head(cs)
             ok == c.line <= Len(d) /\ IsListLine(d, c.line)
             G == IF ~ok THEN F
                  ELSE IF c.op = "fold" THEN F \cup {c.line} ELSE F \ {c.line}
         IN ApplyFoldCmds(d, G, Tail(cs))

\* MyEditor.zoomIn on the host's current document: the zoom range becomes
\* the lines of the item that starts at the line.
hostZoomIn(d, z, n) ==
    IF n <= Len(d) /\ IsListLine(d, n)
    THEN [from |-> [line |-> n, ch |-> 0],
          to |-> [line |-> SubtreeEnd(d, n), ch |-> LineLen(d, SubtreeEnd(d, n))]]
    ELSE z

\* onClick on the displayed element i: look the descriptor up by the
\* element's data-index, then dispatch on the configured action.
onClick(i) ==
    /\ ~destroyed
    /\ i \in 1..Len(lineElements)
    /\ lineElements[i].display = "block"
    /\ UNCHANGED <<doc, visibleRanges, hasLineBlocks, listLines, defaultTheme,
                   listLineAction, hostEditor, scrollPos>>
    /\ UNCHANGED <<editor, timer, domVars, scroller, subsVars>>
    /\ LET idx == lineElements[i].index
       IN IF idx > Len(lines)
          THEN \* lines[idx] is undefined: both actions throw on it
               /\ UNCHANGED <<folds, zoom, taskVars>>
               /\ Note("click", "threw", 0, <<>>, i)
          ELSE IF listLineAction = "zoom-in"
          THEN LET z == hostZoomIn(doc, zoom, lines[idx].list)
               IN /\ zoom' = z
                  /\ UNCHANGED folds
                  /\ (z # zoom => CanSchedule)
                  /\ Dispatch(IF z # zoom THEN ViewportChanged ELSE SelectionSet)
                  /\ Note("click", "zoomed", 0, <<>>, i)
          ELSE LET cs == toggleFolding(parsed.doc, parsed.folds, lines[idx].list)
                   F == ApplyFoldCmds(doc, folds, cs)
               IN /\ folds' = F
                  /\ UNCHANGED zoom
                  /\ (F # folds => CanSchedule)
                  /\ Dispatch(IF F # folds THEN ViewportChanged ELSE SelectionSet)
                  /\ Note("click", "toggled", 0, cs, i)

Click == \E i \in 1..Len(lineElements) : onClick(i)

\* ------------------------------------------------------------ the host
FullRange(d) == << [from |-> 0, to |-> LineEnd(d, Len(d))] >>
VisRange(d, a, b) == << [from |-> LineStart(d, a), to |-> LineEnd(d, b)] >>

\* The host sets the editor of the view's field.
AttachEditor ==
    /\ ~hostEditor
    /\ hostEditor' = TRUE
    /\ UNCHANGED <<doc, folds, zoom, visibleRanges, hasLineBlocks, listLines,
                   defaultTheme, listLineAction, scrollPos>>
    /\ UNCHANGED <<editor, timer, taskVars, domVars, scroller, subsVars>>
    /\ Note("attach", "none", 0, <<>>, 0)

\* A view update that changes nothing the model tracks (a selection
\* change, a font change, a reconfiguration).
ViewUpdateWith(u) ==
    /\ ~destroyed
    /\ (Flagged(u) => CanSchedule)
    /\ Dispatch(u)
    /\ UNCHANGED <<hostVars, editor, timer, domVars, scroller, subsVars>>
    /\ Note("update", "none", 0, <<>>, 0)

ViewUpdate ==
    \E docChanged, viewportChanged, geometryChanged, reconfigured \in BOOLEAN :
        ViewUpdateWith(Flags(docChanged, viewportChanged, geometryChanged, reconfigured))

\* The view is laid out, resized or hidden: a viewport change.
Layout ==
    \E vr \in {<<>>, FullRange(doc)}, lb \in BOOLEAN :
        /\ <<vr, lb>> # <<visibleRanges, hasLineBlocks>>
        /\ visibleRanges' = vr
        /\ hasLineBlocks' = lb
        /\ (~destroyed => CanSchedule)
        /\ Dispatch(ViewportChanged)
        /\ UNCHANGED <<doc, folds, zoom, listLines, defaultTheme, listLineAction,
                       hostEditor, scrollPos>>
        /\ UNCHANGED <<editor, timer, domVars, scroller, subsVars>>
        /\ Note("layout", "none", 0, <<>>, 0)

\* The user toggles the listLines setting: the callbacks registered with
\* settings.onChange("listLines", ...) run.
ToggleListLines ==
    /\ listLines' = ~listLines
    /\ (settingsCb => CanSchedule)
    /\ IF settingsCb THEN scheduleRecalculate ELSE NoSchedule
    /\ UNCHANGED <<doc, folds, zoom, visibleRanges, hasLineBlocks, defaultTheme,
                   listLineAction, hostEditor, scrollPos>>
    /\ UNCHANGED <<editor, timer, domVars, scroller, subsVars>>
    /\ Note("setting", "none", 0, <<>>, 0)

ToggleTheme ==
    /\ defaultTheme' = ~defaultTheme
    /\ UNCHANGED <<doc, folds, zoom, visibleRanges, hasLineBlocks, listLines,
                   listLineAction, hostEditor, scrollPos>>
    /\ UNCHANGED <<editor, timer, taskVars, domVars, scroller, subsVars>>
    /\ Note("theme", "none", 0, <<>>, 0)

SetAction ==
    /\ listLineAction' = IF listLineAction = "zoom-in" THEN "toggle-folding" ELSE "zoom-in"
    /\ UNCHANGED <<doc, folds, zoom, visibleRanges, hasLineBlocks, listLines,
                   defaultTheme, hostEditor, scrollPos>>
    /\ UNCHANGED <<editor, timer, taskVars, domVars, scroller, subsVars>>
    /\ Note("action", "none", 0, <<>>, 0)

\* onScroll: a scroll event of the editor's scroll container; the listener
\* copies the scroll position to the overlay.
Scroll ==
    /\ scrollPos' = 1 - scrollPos
    /\ scroller' = IF scrollCb THEN scrollPos' ELSE scroller
    /\ UNCHANGED <<doc, folds, zoom, visibleRanges, hasLineBlocks, listLines,
                   defaultTheme, listLineAction, hostEditor>>
    /\ UNCHANGED <<editor, timer, taskVars, domVars, subsVars>>
    /\ Note("scroll", "none", 0, <<>>, 0)

\* The user folds or unfolds an item that has children.
HostFold ==
    \E l \in 1..Len(doc) :
        /\ IsListLine(doc, l)
        /\ ChildSet(doc, l) # {}
        /\ folds' = IF l \in folds THEN folds \ {l} ELSE folds \cup {l}
        /\ (~destroyed => CanSchedule)
        /\ Dispatch(ViewportChanged)
        /\ UNCHANGED <<doc, zoom, visibleRanges, hasLineBlocks, listLines,
                       defaultTheme, listLineAction, hostEditor, scrollPos>>
        /\ UNCHANGED <<editor, timer, domVars, scroller, subsVars>>
        /\ Note("fold", "none", 0, <<>>, 0)

\* The user edits the document: another document, nothing folded or zoomed.
HostEdit(D) ==
    \E d \in D \ {doc} :
        /\ doc' = d
        /\ folds' = {}
        /\ zoom' = NoZoom
        /\ visibleRanges' = IF visibleRanges = <<>> THEN <<>> ELSE FullRange(d)
        /\ (~destroyed => CanSchedule)
        /\ Dispatch(DocChanged)
        /\ UNCHANGED <<hasLineBlocks, listLines, defaultTheme, listLineAction,
                       hostEditor, scrollPos>>
        /\ UNCHANGED <<editor, timer, domVars, scroller, subsVars>>
        /\ Note("edit", "none", 0, <<>>, 0)

\* -------------------------------------------------------- documents used
ScenarioDoc == << Line(0, FALSE), Line(1, FALSE), Line(1, FALSE), Line(0, FALSE) >>

Shapes(n) ==
    {f \in [1..n -> 0..(n - 1)] :
        /\ f[1] = 0
        /\ \A i \in 1..(n - 1) : f[i + 1] <= f[i] + 1}
\* The outlines of at most MaxLines lines with at most one empty item
DocsOf(n) ==
    {[i \in 1..n |-> Line(f[i], i = e)] : f \in Shapes(n), e \in 0..n}
Docs == UNION {DocsOf(n) : n \in 1..MaxLines}
\* An item with two children that have children; an empty top-level item
\* with a non-empty and an empty child
MixedDoc == << Line(0, FALSE), Line(1, FALSE), Line(2, FALSE), Line(1, FALSE), Line(2, FALSE) >>
EmptyTopDoc == << Line(0, TRUE), Line(1, FALSE), Line(1, TRUE) >>
ClickDocs == {ScenarioDoc, MixedDoc, EmptyTopDoc}
\* Two lists separated by a blank line
TwoLists == << Line(0, FALSE), Line(1, FALSE), Line(-1, TRUE), Line(0, FALSE), Line(1, FALSE) >>
\* An item with a child that is the last child of an item with a following
\* sibling
NestedDoc == << Line(0, FALSE), Line(1, FALSE), Line(2, FALSE), Line(0, FALSE) >>

Foldable(d) == {l \in 1..Len(d) : IsListLine(d, l) /\ ChildSet(d, l) # {}}
ZoomRanges(d) ==
    {NoZoom} \cup
    {[from |-> [line |-> a, ch |-> 0], to |-> [line |-> b, ch |-> LineLen(d, b)]] :
        a \in 1..Len(d), b \in 1..Len(d)} 
VisRanges(d) ==
    {VisRange(d, a, b) : a \in 1..Len(d), b \in 1..Len(d)}

\* ------------------------------------------------------------- Init
\* The state the constructor leaves: listeners registered, no element, and
\* waitForEditor has either attached the editor and scheduled, or armed
\* its timer.
Constructed ==
    /\ editor = hostEditor
    /\ timer = ~hostEditor
    /\ immediates = IF hostEditor THEN {1} ELSE {}
    /\ scheduled = IF hostEditor THEN 1 ELSE 0
    /\ trig = IF hostEditor THEN 1 ELSE 0
    /\ lastLine = 0
    /\ lines = <<>>
    /\ lineElements = <<>>
    /\ parsed = [doc |-> <<>>, folds |-> {}]
    /\ scroller = 0
    /\ settingsCb = TRUE
    /\ scrollCb = TRUE
    /\ destroyed = FALSE
    /\ last = "constructor"
    /\ outcome = "none"
    /\ served = 0
    /\ cmds = <<>>
    /\ clicked = 0
    /\ toggles = NoToggles
    /\ seen = 0

\* The life of one plugin value over the scenario document
Init ==
    /\ doc = ScenarioDoc
    /\ folds = {}
    /\ zoom = NoZoom
    /\ visibleRanges \in {<<>>, FullRange(doc)}
    /\ hasLineBlocks \in BOOLEAN
    /\ listLines \in BOOLEAN
    /\ defaultTheme \in BOOLEAN
    /\ listLineAction = "toggle-folding"
    /\ hostEditor \in BOOLEAN
    /\ scrollPos = 0
    /\ Constructed

Next ==
    \/ AttachEditor
    \/ WaitForEditor
    \/ ViewUpdate
    \/ Layout
    \/ ToggleListLines
    \/ ToggleTheme
    \/ Scroll
    \/ Calculate
    \/ Destroy

Spec == Init /\ [][Next]_vars

\* The same life with the event loop running every task setImmediate has
\* queued: a pending calculate is eventually run.  The fairness is that of
\* Calculate, stated on what its steps do to the queue and the history: a
\* task leaves the queue and the step is a run of calculate, which no other
\* action is; it is enabled exactly when a task is pending.
CalculateStep ==
    \E h \in immediates : immediates' = immediates \ {h} /\ last' = "calculate"
SpecLive == Init /\ [][Next]_vars /\ WF_<<immediates, last>>(CalculateStep)

\* One recomputation in any host state: document, folds, zoom and visible
\* range are drawn from the bounded sets; under a zoom the visible range
\* shows some of the zoomed lines.
InitGeom ==
    /\ doc \in Docs \cup {ScenarioDoc, TwoLists, NestedDoc}
    /\ folds \in SUBSET Foldable(doc)
    /\ zoom \in ZoomRanges(doc)
    /\ visibleRanges \in VisRanges(doc)
    /\ zoom.from.line <= zoom.to.line
    /\ visibleRanges[1].from <= visibleRanges[1].to
    /\ (zoom # NoZoom =>
          /\ visibleRanges[1].from <= posToOffset(doc, zoom.to.line, zoom.to.ch)
          /\ visibleRanges[1].to >= posToOffset(doc, zoom.from.line, zoom.from.ch))
    /\ hasLineBlocks = TRUE
    /\ listLines = TRUE
    /\ defaultTheme = TRUE
    /\ listLineAction = "toggle-folding"
    /\ hostEditor = TRUE
    /\ scrollPos = 0
    /\ Constructed

NextGeom ==
    \/ Calculate

SpecGeom == InitGeom /\ [][NextGeom]_vars

\* Clicks on the connectors, with folds toggled by the user in between
InitClick ==
    /\ doc \in ClickDocs
    /\ folds = {}
    /\ zoom = NoZoom
    /\ visibleRanges = FullRange(doc)
    /\ hasLineBlocks = TRUE
    /\ listLines = TRUE
    /\ defaultTheme = TRUE
    /\ listLineAction \in {"zoom-in", "toggle-folding"}
    /\ hostEditor = TRUE
    /\ scrollPos = 0
    /\ Constructed

NextClick ==
    \/ Calculate
    \/ Click
    \/ HostFold
    \/ HostEdit(ClickDocs)

SpecClick == InitClick /\ [][NextClick]_vars

\* The elements over the life of a plugin value: recomputations that
\* compute, clear and fail, with folds and clicks in between
InitDom ==
    /\ doc = MixedDoc
    /\ folds = {}
    /\ zoom = NoZoom
    /\ visibleRanges = FullRange(doc)
    /\ hasLineBlocks = TRUE
    /\ listLines = TRUE
    /\ defaultTheme = TRUE
    /\ listLineAction = "toggle-folding"
    /\ hostEditor \in BOOLEAN
    /\ scrollPos = 0
    /\ Constructed

NextDom ==
    \/ AttachEditor
    \/ WaitForEditor
    \/ ViewUpdateWith(GeometryChanged)
    \/ Calculate
    \/ Click
    \/ HostFold

SpecDom == InitDom /\ [][NextDom]_vars

\* ================================================================ claims
DescIdx == 1..Len(lines)
Displayed == {i \in 1..Len(lineElements) : lineElements[i].display = "block"}
AllHidden ==
    \A i \in 1..Len(lineElements) :
        /\ lineElements[i].display = "none"
        /\ lineElements[i].top = 0
        /\ lineElements[i].left = 0
        /\ lineElements[i].height = HiddenStyle
Ran == last = "calculate"

RECURSIVE Ancestors(_, _)
Ancestors(d, l) ==
    LET p == getParent(d, l)
    IN IF p <= 0 THEN {} ELSE {p} \cup Ancestors(d, p)
RootOf(d, l) == -BlockStart(d, l)
Items(d) == {l \in 1..Len(d) : IsListLine(d, l)}

\* C1: the requests made since the last run are served by one pending
\* task: at most one recomputation is pending in every state, exactly one
\* while a request is outstanding, and none is left once calculate has run.
C1_Coalesced ==
    /\ Cardinality(immediates) <= 1
    /\ (trig >= 1 => Cardinality(immediates) = 1)
    /\ (trig = 0 => immediates = {})
    /\ (Ran => immediates = {})
C1_Witness == Ran /\ served >= 2 /\ immediates = {}

\* C2: after destroy no recomputation runs.
C2_NoRunAfterDestroy == ~(Ran /\ destroyed)

\* C3: calculate never works through the editor while this.editor is
\* unset, so no recomputation fails on it.
C3_NoWorkBeforeEditor == ~(Ran /\ outcome = "threw")

\* C4: a recomputation that runs while the setting is off, the default
\* theme is not enabled, or there are no line blocks or no visible ranges
\* leaves no descriptor, hides every element and does not fail.
C4_Disabled ==
    ~listLines \/ ~defaultTheme \/ ~hasLineBlocks \/ Len(visibleRanges) = 0
C4_ClearedWhenDisabled ==
    (Ran /\ C4_Disabled) => (lines = <<>> /\ AllHidden /\ outcome # "threw")
C4_Witness ==
    /\ Ran
    /\ ~defaultTheme
    /\ listLines /\ hasLineBlocks /\ Len(visibleRanges) > 0
    /\ Len(lineElements) >= 1
    /\ AllHidden

\* C5: no descriptor references an item with zero children.
C5_NoChildlessItem ==
    \A i \in DescIdx : ChildSet(parsed.doc, lines[i].list) # {}
C5_Witness ==
    /\ Ran
    /\ Len(lines) >= 1
    /\ \E l \in Items(doc) : ChildSet(doc, l) = {} /\ ~OutOfSight(doc, zoom, visibleRanges, RootLastLine(doc, RootOf(doc, l)), l)

\* C6: no descriptor references a folded item; the scenario document with
\* item a folded yields no connector.
C6_NoFoldedItem ==
    /\ \A i \in DescIdx : lines[i].list \notin parsed.folds
    /\ (Ran /\ doc = ScenarioDoc /\ 1 \in folds) => lines = <<>>
C6_Witness ==
    /\ Ran
    /\ doc = ScenarioDoc
    /\ folds = {1}
    /\ zoom = NoZoom
    /\ visibleRanges = FullRange(doc)
    /\ lines = <<>>

\* C7: no descriptor references a proper descendant of a folded item.
C7_NoFoldedAncestor ==
    \A i \in DescIdx : Ancestors(parsed.doc, lines[i].list) \cap parsed.folds = {}
C7_Witness ==
    /\ Ran
    /\ \E l \in Items(doc) :
          /\ ChildSet(doc, l) # {}
          /\ l \notin folds
          /\ Ancestors(doc, l) \cap folds # {}
          /\ ~OutOfSight(doc, zoom, visibleRanges, RootLastLine(doc, RootOf(doc, l)), l)
          /\ \A i \in DescIdx : lines[i].list # l

\* The interval of an item, from its content start to its tillOffset, with
\* the lastLine of the list it belongs to
ItemFrom(l) == fromOffsetOf(doc, l)
ItemTill(l) == tillOffsetOf(doc, RootLastLine(doc, RootOf(doc, l)), l)
ZoomFrom == posToOffset(doc, zoom.from.line, zoom.from.ch)
ZoomTo == posToOffset(doc, zoom.to.line, zoom.to.ch)
ScenarioZoom ==
    [from |-> [line |-> 2, ch |-> 0], to |-> [line |-> 3, ch |-> LineLen(ScenarioDoc, 3)]]
InScenarioZoom ==
    /\ doc = ScenarioDoc
    /\ folds = {}
    /\ zoom = ScenarioZoom
    /\ visibleRanges = FullRange(doc)

\* C8 as stated: under a zoom range no descriptor references an item whose
\* content-start line is outside the zoom range; the scenario document
\* zoomed on the lines of b and c yields no connector for a.
C8_Original ==
    (Ran /\ zoom # NoZoom) =>
        \A i \in DescIdx : lines[i].list \in zoom.from.line..zoom.to.line

\* C8 amended: under a zoom range no descriptor references an item whose
\* interval from content start to tillOffset misses the zoom range; an item
\* that starts above the zoom range and reaches into it keeps its connector,
\* so the scenario document zoomed on b and c yields the connector of a,
\* with the overscan top.
C8_ZoomIntersects ==
    /\ (Ran /\ zoom # NoZoom) =>
           \A i \in DescIdx :
               /\ ItemFrom(lines[i].list) <= ZoomTo
               /\ ItemTill(lines[i].list) >= ZoomFrom
    /\ (Ran /\ InScenarioZoom) =>
           /\ Len(lines) = 1
           /\ lines[1].list = 1
           /\ lines[1].top = -Overscan
C8_Witness ==
    /\ Ran
    /\ zoom # NoZoom
    /\ \E l \in Items(doc) :
          /\ ChildSet(doc, l) # {}
          /\ ~isFolded(doc, folds, l)
          /\ ItemFrom(l) > ZoomTo
          /\ ItemFrom(l) <= LastVisible(visibleRanges)
          /\ ItemTill(l) >= FirstVisible(visibleRanges)
          /\ \A i \in DescIdx : lines[i].list # l

\* The visible pixel range: the top of the line block at the start of the
\* clipped visible range, the bottom of the one at its end
ClipTop == lineBlockTop(doc, folds, visibleFromOf(doc, zoom, visibleRanges))
ClipBottom == lineBlockBottom(doc, folds, visibleToOf(doc, zoom, visibleRanges))
FirstBlockTop == lineBlockTop(doc, folds, FirstVisible(visibleRanges))
LastBlockBottom == lineBlockBottom(doc, folds, LastVisible(visibleRanges))
DescBottom(i) == lines[i].top + lines[i].height.px
StartsAbove(l) ==
    /\ visibleFromOf(doc, zoom, visibleRanges) > 0
    /\ ItemFrom(l) <= visibleFromOf(doc, zoom, visibleRanges)

\* C9 as stated: every descriptor lies between the top of the first
\* visible line block and the bottom of the last one.
C9_Original ==
    Ran => \A i \in DescIdx :
               /\ lines[i].top >= FirstBlockTop
               /\ DescBottom(i) <= LastBlockBottom

\* C9 amended: the bottom of a descriptor is never below the bottom of the
\* last visible line block; its top is never above the top of the first
\* one, except for an item whose content starts at or above a visible
\* start that is not the document start: its top is the overscan -20.
C9_ClippedOrOverscan ==
    Ran => \A i \in DescIdx :
               /\ DescBottom(i) <= ClipBottom
               /\ DescBottom(i) <= LastBlockBottom
               /\ IF StartsAbove(lines[i].list)
                  THEN lines[i].top = -Overscan
                  ELSE lines[i].top >= ClipTop /\ lines[i].top >= FirstBlockTop
C9_Witness ==
    /\ Ran
    /\ zoom = NoZoom
    /\ \E i \in DescIdx :
          /\ ItemFrom(lines[i].list) < FirstVisible(visibleRanges)
          /\ ItemTill(lines[i].list) > LastVisible(visibleRanges)
          /\ lines[i].top = -Overscan
          /\ DescBottom(i) = LastBlockBottom

\* The item a click acted on, its non-empty children and their fold flags,
\* as the List object of the descriptor holds them
ClickedItem == lines[lineElements[clicked].index].list
Toggled == last = "click" /\ outcome = "toggled"
Kids == {c \in ChildSet(parsed.doc, ClickedItem) : ~parsed.doc[c].empty}
KidFolded(c) == isFolded(parsed.doc, parsed.folds, c)
Sent(op, c) == \E k \in 1..Len(cmds) : cmds[k] = [op |-> op, line |-> c]
Live(c) == c <= Len(doc) /\ IsListLine(doc, c)
ToggleRule ==
    /\ \A k \in 1..Len(cmds) : cmds[k].line \in Kids
    /\ IF \A c \in Kids : KidFolded(c)
       THEN \A c \in Kids : /\ Sent("unfold", c) /\ ~Sent("fold", c)
                             /\ (Live(c) => c \notin folds)
       ELSE \A c \in Kids : /\ ~Sent("unfold", c)
                             /\ (~KidFolded(c) => Sent("fold", c))
                             /\ (Live(c) => c \in folds)

Twice == Toggled /\ toggles.n = 2
TKids == {c \in ChildSet(doc, toggles.item) : ~doc[c].empty}
Uniform0 ==
    \/ \A c \in TKids : c \in toggles.folds0
    \/ \A c \in TKids : c \notin toggles.folds0

\* C11 as stated: two toggle-folding clicks on the same item, each on
\* descriptors of a recomputation that saw the current document and folds,
\* leave every child in its original fold state, whatever the states were.
C11_Original ==
    (Twice /\ toggles.fresh) => folds = toggles.folds0

\* C11 amended: two such clicks return the children to their original fold
\* states when the non-empty children were all folded or all unfolded; when
\* some were folded and some not, the first click folds them all and the
\* second unfolds them all.  When no recomputation ran between the clicks
\* the second repeats the commands of the first and changes nothing.
C11_TwiceUniform ==
    Twice =>
        /\ toggles.fresh =>
               IF Uniform0 THEN folds = toggles.folds0
               ELSE /\ TKids \cap folds = {}
                    /\ folds \ TKids = toggles.folds0 \ TKids
        /\ ~toggles.rerun => folds = toggles.mid
C11_Witness ==
    /\ Twice
    /\ toggles.fresh
    /\ toggles.rerun
    /\ Cardinality(TKids) >= 2
    /\ TKids \subseteq toggles.folds0
    /\ toggles.mid \cap TKids = {}
    /\ folds = toggles.folds0

\* C12: a click is dispatched on an item of a parse of the document as it
\* is at the click: zoom-in on descriptors recomputed after the last edit of
\* the document, toggle-folding on descriptors recomputed after the last
\* edit and the last fold change.
ClickDispatched == last' = "click" /\ outcome' \in {"zoomed", "toggled"}
C12_FreshAtClick ==
    [][ClickDispatched =>
           /\ parsed.doc = doc
           /\ (outcome' = "toggled" => parsed.folds = folds)]_vars

\* A step that makes a new request: a task of calculate is pending after it
\* and the requests not yet served are one more.
Schedules ==
    /\ scheduled' \in immediates'
    /\ (trig < MaxTriggers => trig' = trig + 1)
UpdateTrigger ==
    \/ ViewUpdateWith(DocChanged)
    \/ ViewUpdateWith(ViewportChanged)
    \/ ViewUpdateWith(GeometryChanged)
    \/ ViewUpdateWith(Reconfigured)
    \/ Layout
SettingTrigger == settingsCb /\ ToggleListLines

\* C13 as stated: a document change, a viewport change, a geometry change,
\* a reconfiguration, a toggle of the listLines setting and a scroll event
\* of the scroll container each schedule a recomputation.
C13_Original ==
    [][(~destroyed /\ (UpdateTrigger \/ SettingTrigger \/ Scroll)) => Schedules]_vars

\* C13 amended: the four kinds of update and a toggle of the listLines
\* setting each schedule a recomputation; a scroll event schedules none:
\* its listener copies the scroll position to the scroller of the overlay.
C13_TriggersSchedule ==
    [][/\ (~destroyed /\ (UpdateTrigger \/ SettingTrigger)) => Schedules
       /\ Scroll => /\ UNCHANGED <<immediates, scheduled, trig>>
                    /\ (scrollCb => scroller' = scrollPos')]_vars
C13_Witness ==
    /\ last = "scroll"
    /\ ~destroyed
    /\ scroller = 1
    /\ scrollPos = 1
    /\ immediates = {}
    /\ Len(lineElements) >= 1

InScenario ==
    /\ doc = ScenarioDoc
    /\ folds = {}
    /\ zoom = NoZoom
    /\ visibleRanges = FullRange(doc)
OneConnectorOfA ==
    /\ Len(lines) = 1
    /\ lines[1].list = 1
    /\ \A i \in DescIdx : lines[i].list \notin {2, 3, 4}

\* C14 as stated: the scenario document, fully visible, nothing folded, no
\* zoom, yields exactly one connector, of a, that spans from the start of b
\* to just before the start of d; b, c and d get none.
C14_Original ==
    (Ran /\ InScenario) =>
        /\ OneConnectorOfA
        /\ lines[1].top = lineBlockTop(doc, folds, LineStart(doc, 2))
        /\ DescBottom(1) = lineBlockTop(doc, folds, LineStart(doc, 4))

\* C14 amended: the one connector, of a, spans from the top of a's own line
\* (its fromOffset is the content start of a) to the bottom of c's line,
\* which is just before the start of d; b, c and d get none.
C14_ScenarioConnector ==
    (Ran /\ InScenario) =>
        /\ OneConnectorOfA
        /\ lines[1].top = lineBlockTop(doc, folds, fromOffsetOf(doc, 1))
        /\ lines[1].top = 0
        /\ lines[1].left = 0
        /\ DescBottom(1) = lineBlockBottom(doc, folds, LineStart(doc, 3))
        /\ DescBottom(1) = lineBlockTop(doc, folds, LineStart(doc, 4))
        /\ lines[1].height = [px |-> 3 * LineHeight, minus |-> "1em"]
C14_Witness ==
    /\ Ran
    /\ InScenario
    /\ Len(lines) = 1
    /\ lines[1].height.px = 3 * LineHeight

\* The items with children, the lastLine in force while the list of an item
\* is walked, the following sibling of an item among its parent's children
WithKids == {l \in Items(doc) : ChildSet(doc, l) # {}}
LastLineOf(l) == RootLastLine(doc, RootOf(doc, l))
OwnSibling(l) == getNextSiblingOf(doc, getParent(doc, l), l)
TillOf(l) == tillOffsetOf(doc, LastLineOf(l), l)
\* The item or ancestor nearest to the item that has a following sibling
WithSibling(l) == {x \in {l} \cup Ancestors(doc, l) : OwnSibling(x) # NoList}
Nearest(l) == CHOOSE x \in WithSibling(l) : \A y \in WithSibling(l) : y <= x
Unclamped(i) == TillOf(lines[i].list) <= visibleToOf(doc, zoom, visibleRanges)

\* tillOffset as the claim has it: by the item's own following sibling
TillOwn(l) ==
    IF OwnSibling(l) # NoList THEN LineStart(doc, OwnSibling(l) - 1)
    ELSE LineStart(doc, LastLineOf(l))
\* tillOffset by the following sibling of the item or its nearest ancestor
TillClimbing(l) ==
    IF WithSibling(l) # {} THEN LineStart(doc, OwnSibling(Nearest(l)) - 1)
    ELSE LineStart(doc, LastLineOf(l))

\* C15 as stated: tillOffset of an item with children is the start of the
\* line before its following sibling when it has one among its parent's
\* children, and otherwise the start of the last line of the top-level list,
\* also for the last child of a parent that has a following sibling; the
\* bottom of an unclamped connector is the bottom of that line.
C15_Original ==
    Ran => /\ \A l \in WithKids : TillOf(l) = TillOwn(l)
           /\ \A i \in DescIdx :
                  TillOwn(lines[i].list) <= visibleToOf(doc, zoom, visibleRanges)
                      => DescBottom(i) = lineBlockBottom(doc, folds, TillOwn(lines[i].list))

\* C15 amended: tillOffset is the start of the line before the following
\* sibling of the item or, when it has none, of its nearest ancestor that
\* has one; only when neither the item nor any ancestor has a following
\* sibling is it the start of the last line of the top-level list.
C15_TillClimbs ==
    Ran => /\ \A l \in WithKids : TillOf(l) = TillClimbing(l)
           /\ \A i \in DescIdx :
                  Unclamped(i)
                      => DescBottom(i) = lineBlockBottom(doc, folds, TillClimbing(lines[i].list))
C15_Witness ==
    /\ Ran
    /\ doc = NestedDoc
    /\ folds = {}
    /\ zoom = NoZoom
    /\ visibleRanges = FullRange(doc)
    /\ \E i \in DescIdx :
          /\ lines[i].list = 2
          /\ OwnSibling(2) = NoList
          /\ DescBottom(i) = 3 * LineHeight

\* C19: the line of tillOffset of an item with children is the last line of
\* the item's own range: an unclamped connector ends at the bottom of the
\* last line of the item's subtree, above the following sibling of the item
\* or of an ancestor and above a later top-level list.
C19_TillIsOwnRangeEnd ==
    Ran => /\ \A l \in WithKids :
                  /\ TillLine(doc, LastLineOf(l), l) = SubtreeEnd(doc, l)
                  /\ \A x \in WithSibling(l) :
                         TillLine(doc, LastLineOf(l), l) < OwnSibling(x)
                  /\ TillLine(doc, LastLineOf(l), l) <= BlockEnd(doc, BlockStart(doc, l))
           /\ \A i \in DescIdx :
                  Unclamped(i) =>
                      DescBottom(i) =
                          lineBlockBottom(doc, folds,
                                          LineStart(doc, SubtreeEnd(doc, lines[i].list)))
C19_Witness ==
    /\ Ran
    /\ doc = TwoLists
    /\ folds = {}
    /\ zoom = NoZoom
    /\ visibleRanges = FullRange(doc)
    /\ Len(lines) = 2
    /\ lines[1].list = 1
    /\ DescBottom(1) = 2 * LineHeight
    /\ lines[2].list = 4

\* The handlers that request a recomputation: update, the listLines
\* callback and the poll of waitForEditor that finds the editor
PollTrigger == hostEditor /\ WaitForEditor
RequestStep == (~destroyed /\ (UpdateTrigger \/ SettingTrigger)) \/ PollTrigger

\* C16: the handler of a trigger does not run the recomputation itself: it
\* leaves the descriptors and the elements as they are and a task of
\* calculate pending; and every request is eventually followed by a run of
\* calculate, unless the plugin value is destroyed first.
C16_DeferredThenRun ==
    /\ [][RequestStep =>
             /\ UNCHANGED <<lastLine, lines, lineElements, parsed>>
             /\ last' # "calculate"
             /\ scheduled' \in immediates']_vars
    /\ ((trig >= 1) ~> (Ran \/ destroyed))
C16_Witness ==
    /\ Ran
    /\ served = 1
    /\ outcome = "computed"
    /\ ~destroyed
    /\ Len(lineElements) = 1

\* Element i shows descriptor i; an element past the descriptors is hidden
ShowsDescriptor(i) ==
    /\ lineElements[i].display = "block"
    /\ lineElements[i].top = lines[i].top
    /\ lineElements[i].left = lines[i].left
    /\ lineElements[i].height = lines[i].height
IsHidden(i) ==
    /\ lineElements[i].display = "none"
    /\ lineElements[i].top = 0
    /\ lineElements[i].left = 0
    /\ lineElements[i].height = HiddenStyle

\* C17: elements are reused by position and never removed: there are as
\* many as the largest number of descriptors a recomputation has produced,
\* element i keeps the index i, and after each recomputation element i
\* shows descriptor i up to the number of descriptors and every element
\* past it is hidden with top, left and height zero.
C17_ReusedByIndex ==
    /\ Len(lineElements) = seen
    /\ \A i \in 1..Len(lineElements) : lineElements[i].index = i
    /\ Ran => /\ Len(lines) <= Len(lineElements)
              /\ \A i \in 1..Len(lineElements) :
                     IF i <= Len(lines) THEN ShowsDescriptor(i) ELSE IsHidden(i)
C17_Witness ==
    /\ Ran
    /\ seen = 3
    /\ Len(lineElements) = 3
    /\ Len(lines) = 2
    /\ ShowsDescriptor(1) /\ ShowsDescriptor(2) /\ IsHidden(3)

\* C18: every displayed element carries an index of an entry of the
\* descriptor list, and no click is dispatched on a missing descriptor,
\* after recomputations that shrink the list and after ones that fail
\* before updateDom.
C18_DisplayedResolves ==
    /\ \A i \in Displayed : lineElements[i].index \in 1..Len(lines)
    /\ ~(last = "click" /\ outcome = "threw")
C18_Witness ==
    /\ last = "click"
    /\ outcome = "toggled"
    /\ seen = 3
    /\ Len(lines) = 2
    /\ Displayed = {1, 2}
    /\ clicked = 2
C18_AbortWitness ==
    /\ Ran
    /\ outcome = "threw"
    /\ lines = <<>>
    /\ Displayed = {}

====
